---------------------------- MODULE Spec2Model ----------------------------
(***************************************************************************)
(* Model of client/embed.js: the embedded universal metric analyzer (the   *)
(* Python function analyze_metric that getUniversalAnalyzerCode returns   *)
(* and runPythonAnalysis executes), the collection of the dashboard data  *)
(* from the document, analyzeAllMetrics and renderAllResults, the         *)
(* automatic initialisation and init(), and execute_sql of the generated  *)
(* API client.  Each part has its own specification; the variables of the *)
(* other parts stay at their idle values in it.                           *)
(*                                                                         *)
(* Numbers are fixed-point: the integer n stands for the value n / 100,   *)
(* so that the two-decimal formatting of the report is exact.  The        *)
(* arithmetic of the model is exact; the inputs it is run on are whole    *)
(* numbers, and decimal values on which the code's floating-point         *)
(* results are far from every limit the code compares them with.  An      *)
(* optional value (a missing dict key, or Python None) is the empty       *)
(* tuple, a present value v is the one-element tuple <<v>>.                *)
(***************************************************************************)
EXTENDS Integers, Sequences, FiniteSets, TLC

VARIABLES
    given,    \* the metric as it was handed to the first call
    metric,   \* the metric dict object, as it is now
    env,      \* the other arguments of the latest call
    result,   \* the outcome of the latest call of analyze_metric
    first,    \* the outcome of the first call on this metric
    pc        \* "ready", "analyzed" (one call made), "reanalyzed" (more)

\* the dashboard page and one run of analyzeAllMetrics
VARIABLES
    dom,            \* the metric, filter and period elements of the document
    dashboardData,  \* this.dashboardData: null, or what was collected
    metrics,        \* the const metrics of analyzeAllMetrics (line 628)
    results,        \* the const results of analyzeAllMetrics (line 629)
    completed,      \* the counter completed of analyzeAllMetrics (line 630)
    inflight,       \* positions in metrics whose runPythonAnalysis is pending
    progress,       \* the progress view, while the modal body holds one
    shown,          \* the results view, once it has replaced the progress view
    pagePc          \* "idle", "loaded", "ready", "running", "rendered", "empty"

analyzerVars == <<given, metric, env, result, first, pc>>

pageVars == <<dom, dashboardData, metrics, results, completed, inflight,
              progress, shown, pagePc>>

\* the loading of the page and of embed.js, and the init() calls on the
\* BIAnalyzer instance
VARIABLES
    readyState,     \* document.readyState: "loading" or "complete"
    config,         \* window.BIAnalyzerConfig: absent, or the assigned object
    scriptPc,       \* embed.js: "not_run", "listening" or "checked"
    instance,       \* the BIAnalyzer instance: "none", "auto" or "host"
    initCalls,      \* how many times init() was called on the instance
    calls,          \* where each init() call is
    initialized,    \* this.initialized
    pyodideLoads,   \* how many times loadPyodide was called
    collections,    \* how many times collectDashboardData was called
    buttons,        \* how many bi-analyzer-btn buttons the document holds
    errorsShown     \* how many times showError was called

\* one call of execute_sql of the generated API client
VARIABLES
    sqlResponseFormat,  \* is config.sqlResponseFormat a function
    response,           \* data: what response.json() gave
    returned,           \* what execute_sql returned or raised
    apiPc               \* "idle", "fetched", "returned"

bootVars == <<readyState, config, scriptPc, instance, initCalls, calls,
              initialized, pyodideLoads, collections, buttons, errorsShown>>

apiVars == <<sqlResponseFormat, response, returned, apiPc>>

vars == <<analyzerVars, pageVars, bootVars, apiVars>>

---------------------------------------------------------------------------
(* Bounds of the model *)

\* current values lie within MaxOff of a comparison value (-10, 0 or 10)
MaxOff == 2

\* each threshold bound ranges over the whole numbers 0..MaxThr-1
MaxThr == 3

---------------------------------------------------------------------------
(* Optional values and three-valued conditions *)

None == <<>>

Some(v) == <<v>>

IsNone(x) == x = <<>>

Abs(n) == IF n < 0 THEN -n ELSE n

\* A Python condition evaluates to True ("T"), to False ("F"), or raises ("E").
PyBool(b) == IF b THEN "T" ELSE "F"

\* a and b: b is not evaluated when a is false
PyAnd(a, b) == IF a = "T" THEN b ELSE a

\* a or b: b is not evaluated when a is true
PyOr(a, b) == IF a = "F" THEN b ELSE a

PyIsNotNone(x) == PyBool(~IsNone(x))

PyIsNone(x) == PyBool(IsNone(x))

\* x < y, x > y, x <= y, x >= y between numbers; TypeError when one is None
PyLt(x, y) == IF IsNone(x) \/ IsNone(y) THEN "E" ELSE PyBool(x[1] < y[1])

PyGt(x, y) == IF IsNone(x) \/ IsNone(y) THEN "E" ELSE PyBool(x[1] > y[1])

PyLe(x, y) == IF IsNone(x) \/ IsNone(y) THEN "E" ELSE PyBool(x[1] <= y[1])

PyGe(x, y) == IF IsNone(x) \/ IsNone(y) THEN "E" ELSE PyBool(x[1] >= y[1])

\* x != 0
PyNonZero(x) == IF IsNone(x) THEN "T" ELSE PyBool(x[1] # 0)

---------------------------------------------------------------------------
(* Number formatting *)

\* two decimal places: the number of hundredths in one
Scale == 100

\* The result of formatting None: format() raises TypeError
FormatError == [sign |-> "E", whole |-> 0, frac |-> 0]

\* f"{x:,.2f}" of a number of hundredths
Format2(x) ==
    IF IsNone(x) THEN FormatError
    ELSE [sign  |-> IF x[1] < 0 THEN "-" ELSE "",
          whole |-> Abs(x[1]) \div Scale,
          frac  |-> Abs(x[1]) % Scale]

\* f"{x:+,.2f}": the sign is always shown
FormatSigned2(x) ==
    IF IsNone(x) THEN FormatError
    ELSE [sign  |-> IF x[1] < 0 THEN "-" ELSE "+",
          whole |-> Abs(x[1]) \div Scale,
          frac  |-> Abs(x[1]) % Scale]

\* A percentage is the exact quotient n / d (d > 0), in percent.
\* f"{abs(p):.2f}": rounded to the nearest hundredth, ties to even
FormatPercent2(p) ==
    LET a == Abs(p.n) * Scale
        q == a \div p.d
        r == a % p.d
        h == IF 2 * r > p.d \/ (2 * r = p.d /\ q % 2 = 1) THEN q + 1 ELSE q
    IN  [sign |-> "", whole |-> h \div Scale, frac |-> h % Scale]

---------------------------------------------------------------------------
(* The running state of one call: report_parts, issues, and the exception  *)
(* raised so far ("" when none).                                           *)

NoExc == ""

Line(kind, words, nums) == [kind |-> kind, words |-> words, nums |-> nums]

Raise(st, exc) == [st EXCEPT !.exc = exc]

\* report_parts.append(...)
AppendPart(st, kind, words, nums) ==
    IF \E i \in 1..Len(nums) : nums[i] = FormatError
    THEN Raise(st, "TypeError")
    ELSE [st EXCEPT !.report_parts = Append(@, Line(kind, words, nums))]

\* issues.append(...)
AppendIssue(st, words, nums) ==
    IF \E i \in 1..Len(nums) : nums[i] = FormatError
    THEN Raise(st, "TypeError")
    ELSE [st EXCEPT !.issues = Append(@, Line("issue", words, nums))]

\* if cond: then-branch; a condition that raises ends the call
PyIf(st, cond, thenSt) ==
    IF st.exc # NoExc THEN st
    ELSE IF cond = "E" THEN Raise(st, "TypeError")
    ELSE IF cond = "T" THEN thenSt
    ELSE st

---------------------------------------------------------------------------
(* Threshold checks (the body of "if thresholds:")                        *)

\* a dict is true when it is not None and holds at least one key; a bound
\* whose key is missing and a bound that is None read the same through .get
PyTruthyDict(t) ==
    /\ ~IsNone(t)
    /\ \/ ~IsNone(t[1].critical_min)
       \/ ~IsNone(t[1].critical_max)
       \/ ~IsNone(t[1].warning_min)
       \/ ~IsNone(t[1].warning_max)

\* mutant: the critical minimum itself counts as a breach
CriticalMinCond_OrEqual(current_value, critical_min) ==
    PyAnd(PyAnd(PyIsNotNone(critical_min), PyIsNotNone(current_value)),
          PyLe(current_value, critical_min))

CriticalMinCond(current_value, critical_min) ==
    PyAnd(PyAnd(PyIsNotNone(critical_min), PyIsNotNone(current_value)),
          PyLt(current_value, critical_min))

\* mutant: the check for a missing current value is left out
CriticalMaxCond_NoValueGuard(current_value, critical_max) ==
    PyAnd(PyIsNotNone(critical_max), PyGt(current_value, critical_max))

CriticalMaxCond(current_value, critical_max) ==
    PyAnd(PyAnd(PyIsNotNone(critical_max), PyIsNotNone(current_value)),
          PyGt(current_value, critical_max))

\* mutant: the guard against a breached critical minimum is left out
WarningMinCond_Unguarded(current_value, warning_min, critical_min) ==
    PyAnd(PyAnd(PyIsNotNone(warning_min), PyIsNotNone(current_value)),
          PyLt(current_value, warning_min))

WarningMinCond(current_value, warning_min, critical_min) ==
    PyAnd(PyAnd(PyAnd(PyIsNotNone(warning_min), PyIsNotNone(current_value)),
                PyLt(current_value, warning_min)),
          PyOr(PyIsNone(critical_min), PyGe(current_value, critical_min)))

\* mutant: the guard lets a value equal to the critical maximum through no more
WarningMaxCond_StrictGuard(current_value, warning_max, critical_max) ==
    PyAnd(PyAnd(PyAnd(PyIsNotNone(warning_max), PyIsNotNone(current_value)),
                PyGt(current_value, warning_max)),
          PyOr(PyIsNone(critical_max), PyLt(current_value, critical_max)))

\* mutant: the guard against a breached critical maximum is left out
WarningMaxCond_Unguarded(current_value, warning_max, critical_max) ==
    PyAnd(PyAnd(PyIsNotNone(warning_max), PyIsNotNone(current_value)),
          PyGt(current_value, warning_max))

WarningMaxCond(current_value, warning_max, critical_max) ==
    PyAnd(PyAnd(PyAnd(PyIsNotNone(warning_max), PyIsNotNone(current_value)),
                PyGt(current_value, warning_max)),
          PyOr(PyIsNone(critical_max), PyLe(current_value, critical_max)))

ThresholdChecks(st, current_value, thresholds) ==
    IF st.exc # NoExc \/ ~PyTruthyDict(thresholds) THEN st
    ELSE
      LET critical_min == thresholds[1].critical_min
          critical_max == thresholds[1].critical_max
          warning_min  == thresholds[1].warning_min
          warning_max  == thresholds[1].warning_max
          s1 == PyIf(st, CriticalMinCond(current_value, critical_min),
                     AppendIssue(st, <<"CRITICAL", "below_critical_min">>,
                                 <<Format2(current_value), Format2(critical_min)>>))
          s2 == PyIf(s1, CriticalMaxCond(current_value, critical_max),
                     AppendIssue(s1, <<"CRITICAL", "above_critical_max">>,
                                 <<Format2(current_value), Format2(critical_max)>>))
          s3 == PyIf(s2, WarningMinCond(current_value, warning_min, critical_min),
                     AppendIssue(s2, <<"WARNING", "below_warning_min">>,
                                 <<Format2(current_value), Format2(warning_min)>>))
          s4 == PyIf(s3, WarningMaxCond(current_value, warning_max, critical_max),
                     AppendIssue(s3, <<"WARNING", "above_warning_max">>,
                                 <<Format2(current_value), Format2(warning_max)>>))
      IN  s4

---------------------------------------------------------------------------
(* Change analysis                                                         *)

\* the fixed limit of "abs(change_percent) >= 10"
NegativeChangeLimit == 10

\* mutant: the check for a zero previous value is left out
ChangeApplies_NoZeroGuard(current_value, previous_value) ==
    PyAnd(PyIsNotNone(previous_value), PyIsNotNone(current_value))

\* mutant: the check for a missing previous value is left out
ChangeApplies_NoNoneGuard(current_value, previous_value) ==
    PyAnd(PyNonZero(previous_value), PyIsNotNone(current_value))

\* previous_value is not None and previous_value != 0 and current_value is not None
ChangeApplies(current_value, previous_value) ==
    PyAnd(PyAnd(PyIsNotNone(previous_value), PyNonZero(previous_value)),
          PyIsNotNone(current_value))

\* ((current_value - previous_value) / abs(previous_value)) * 100, kept as the
\* mutant: the difference is divided by previous_value, not by abs(previous_value)
ChangePercent_NoAbs(current_value, previous_value) ==
    IF IsNone(current_value) \/ IsNone(previous_value)
    THEN [exc |-> "TypeError", n |-> 0, d |-> 1]
    ELSE IF previous_value[1] = 0
    THEN [exc |-> "ZeroDivisionError", n |-> 0, d |-> 1]
    ELSE [exc |-> NoExc,
          n   |-> (current_value[1] - previous_value[1]) * 100
                  * (IF previous_value[1] < 0 THEN -1 ELSE 1),
          d   |-> Abs(previous_value[1])]

\* exact quotient n / d; the subtraction raises TypeError on None and the
\* division ZeroDivisionError on a zero divisor
ChangePercent(current_value, previous_value) ==
    IF IsNone(current_value) \/ IsNone(previous_value)
    THEN [exc |-> "TypeError", n |-> 0, d |-> 1]
    ELSE IF Abs(previous_value[1]) = 0
    THEN [exc |-> "ZeroDivisionError", n |-> 0, d |-> 1]
    ELSE [exc |-> NoExc,
          n   |-> (current_value[1] - previous_value[1]) * 100,
          d   |-> Abs(previous_value[1])]

\* current_value - previous_value
ChangeAbs(current_value, previous_value) ==
    IF IsNone(current_value) \/ IsNone(previous_value) THEN None
    ELSE Some(current_value[1] - previous_value[1])

\* (change_percent > 0) if positive_direction == 'up' else (change_percent < 0)
IsPositive(change_percent, positive_direction) ==
    IF positive_direction = "up" THEN change_percent.n > 0
    ELSE change_percent.n < 0

ChangeIndicator(is_positive) == IF is_positive THEN "up_arrow" ELSE "down_arrow"

\* mutant: a change of exactly the limit is let through
NegativeChangeCond_Above(is_positive, change_percent) ==
    PyAnd(PyBool(~is_positive),
          PyBool(Abs(change_percent.n) > NegativeChangeLimit * change_percent.d))

\* not is_positive and abs(change_percent) >= 10
NegativeChangeCond(is_positive, change_percent) ==
    PyAnd(PyBool(~is_positive),
          PyBool(Abs(change_percent.n) >= NegativeChangeLimit * change_percent.d))

\* mutant: the change is looked at only when no threshold issue was found
ChangeAnalysis_OnlyWithoutIssues(st, current_value, previous_value, positive_direction) ==
    LET change_percent == ChangePercent(current_value, previous_value)
        is_positive == IsPositive(change_percent, positive_direction)
        s1 == AppendPart(st, "change", <<ChangeIndicator(is_positive)>>,
                         <<FormatPercent2(change_percent),
                           FormatSigned2(ChangeAbs(current_value, previous_value))>>)
        s2 == PyIf(s1, NegativeChangeCond(is_positive, change_percent),
                   AppendIssue(s1, <<"NEGATIVE_CHANGE">>,
                               <<FormatPercent2(change_percent)>>))
    IN  PyIf(st, PyAnd(PyBool(st.issues = <<>>),
                       ChangeApplies(current_value, previous_value)),
             IF change_percent.exc # NoExc THEN Raise(st, change_percent.exc)
             ELSE s2)

ChangeAnalysis(st, current_value, previous_value, positive_direction) ==
    LET cond == ChangeApplies(current_value, previous_value)
        change_percent == ChangePercent(current_value, previous_value)
        change_abs == ChangeAbs(current_value, previous_value)
        is_positive == IsPositive(change_percent, positive_direction)
        s1 == AppendPart(st, "change", <<ChangeIndicator(is_positive)>>,
                         <<FormatPercent2(change_percent), FormatSigned2(change_abs)>>)
        s2 == PyIf(s1, NegativeChangeCond(is_positive, change_percent),
                   AppendIssue(s1, <<"NEGATIVE_CHANGE">>,
                               <<FormatPercent2(change_percent)>>))
    IN  PyIf(st, cond,
             IF change_percent.exc # NoExc THEN Raise(st, change_percent.exc)
             ELSE s2)

---------------------------------------------------------------------------
(* The end of the report                                                   *)

RECURSIVE AppendBullets(_, _)
\* for issue in issues: report_parts.append(f"* {issue}")
AppendBullets(parts, issues) ==
    IF issues = <<>> THEN parts
    ELSE AppendBullets(Append(parts, [Head(issues) EXCEPT !.kind = "bullet"]),
                       Tail(issues))

\* mutant: the closing line is appended whether or not issues were found
Conclusion_AlwaysNormal(st) ==
    IF st.exc # NoExc THEN st
    ELSE
      LET s1 == AppendPart(st, "blank", <<>>, <<>>)
          s2 == IF s1.issues # <<>>
                THEN [s1 EXCEPT !.report_parts =
                         AppendBullets(Append(@, Line("problems_header", <<>>, <<>>)),
                                       s1.issues)]
                ELSE s1
      IN  AppendPart(s2, "no_problems", <<>>, <<>>)

Conclusion(st) ==
    IF st.exc # NoExc THEN st
    ELSE
      LET s1 == AppendPart(st, "blank", <<>>, <<>>)
      IN  IF s1.issues # <<>>
          THEN [s1 EXCEPT !.report_parts =
                   AppendBullets(Append(@, Line("problems_header", <<>>, <<>>)),
                                 s1.issues)]
          ELSE AppendPart(s1, "no_problems", <<>>, <<>>)

---------------------------------------------------------------------------
(* analyze_metric                                                          *)

\* metric.get(key, default) for an optional field
GetOr(field, default) == IF IsNone(field) THEN default ELSE field[1]

\* the body of analyze_metric, from its first statement to the last append
RunAnalysis(m) ==
    LET metric_name    == GetOr(m.name, "Metric")
        current_value  == m.value
        previous_value == m.comparison_value
        thresholds     == m.thresholds
        positive_direction == GetOr(m.positive_direction, "up")
        s0 == [report_parts |-> <<Line("title", <<metric_name>>, <<>>),
                                  Line("blank", <<>>, <<>>)>>,
               issues |-> <<>>,
               exc |-> NoExc]
        s1 == PyIf(s0, PyIsNotNone(current_value),
                   AppendPart(s0, "current", <<>>, <<Format2(current_value)>>))
        s2 == ThresholdChecks(s1, current_value, thresholds)
        s3 == ChangeAnalysis(s2, current_value, previous_value, positive_direction)
    IN  Conclusion(s3)

\* mutant: the title is taken from the dashboard argument when one is given
analyze_metric_DashboardTitle(m, filters, period, api_client, dashboard) ==
    LET s == RunAnalysis(m)
        parts == IF IsNone(dashboard) THEN s.report_parts
                 ELSE [s.report_parts EXCEPT ![1].words = <<dashboard[1]>>]
    IN  [exc    |-> s.exc,
         report |-> IF s.exc = NoExc THEN parts ELSE <<>>,
         issues |-> s.issues,
         metric |-> m]

\* The outcome of a call: the exception raised ("" when the call returned),
\* the returned report (the lines joined by "\n"), the issue list as it was
\* at the return, and the metric dict as the call left it.
analyze_metric(m, filters, period, api_client, dashboard) ==
    LET s == RunAnalysis(m)
    IN  [exc    |-> s.exc,
         report |-> IF s.exc = NoExc THEN s.report_parts ELSE <<>>,
         issues |-> s.issues,
         metric |-> m]

---------------------------------------------------------------------------
(* The metrics the analyzer is run on                                      *)

\* absent, or one of the whole numbers of S
OptNumber(S) == {None} \cup {Some(v * Scale) : v \in S}

ThresholdRecords ==
    [critical_min : OptNumber(0..(MaxThr - 1)),
     critical_max : OptNumber(0..(MaxThr - 1)),
     warning_min  : OptNumber(0..(MaxThr - 1)),
     warning_max  : OptNumber(0..(MaxThr - 1))]

NoBounds ==
    [critical_min |-> None, critical_max |-> None,
     warning_min |-> None, warning_max |-> None]

\* comparison values: zero, and a positive and a negative one of which 1 is
\* ten percent
ComparisonValues == {-10, 0, 10}

\* current values: around each comparison value, so that changes of less
\* than, exactly and more than ten percent occur in both directions, and
\* around the threshold bounds
CurrentValues == {b + k : b \in ComparisonValues, k \in (-MaxOff)..MaxOff}

\* every combination of a current value, a comparison value, a thresholds
\* dict (absent, empty, or any bounds in any order) and a positive direction
\* (absent, up, down), each of the first three also absent
GridMetrics ==
    [name : {Some("Sales")},
     value : OptNumber(CurrentValues),
     comparison_value : OptNumber(ComparisonValues),
     thresholds : {None} \cup {Some(t) : t \in ThresholdRecords},
     positive_direction : {None, Some("up"), Some("down")}]

BareMetric(v) ==
    [name |-> Some("Sales"), value |-> Some(v), comparison_value |-> None,
     thresholds |-> None, positive_direction |-> None]

\* the scenarios A to E of the specification (values in hundredths)
ScenarioA ==
    [BareMetric(4550) EXCEPT !.comparison_value = Some(4430),
                             !.positive_direction = Some("down")]

ScenarioB ==
    [BareMetric(8000) EXCEPT !.thresholds =
        Some([NoBounds EXCEPT !.critical_max = Some(7500),
                              !.warning_max = Some(7000)])]

ScenarioC ==
    [BareMetric(5000) EXCEPT !.thresholds =
        Some([NoBounds EXCEPT !.warning_min = Some(6000)])]

ScenarioD ==
    [BareMetric(10000) EXCEPT !.comparison_value = Some(15000),
                              !.positive_direction = Some("up")]

ScenarioE == [BareMetric(4200) EXCEPT !.name = None]

Metrics == GridMetrics \cup {ScenarioA, ScenarioB, ScenarioC, ScenarioD, ScenarioE}

\* the other arguments of a call: filters, period, api_client, dashboard
Envs ==
    {[filters |-> "no_filters", period |-> None,
      api_client |-> "api_client_1", dashboard |-> None],
     [filters |-> "filters", period |-> Some("period"),
      api_client |-> "api_client_2", dashboard |-> Some("dashboard_data")]}

NoEnv == [filters |-> "", period |-> None, api_client |-> "", dashboard |-> None]

NoResult == [exc |-> "not_called", report |-> <<>>, issues |-> <<>>, metric |-> None]

---------------------------------------------------------------------------
(* The parts of the state a specification does not use stay as they are    *)

NoDom == [elements |-> <<>>, filters |-> <<>>, period |-> None]

PageIdle ==
    /\ dom = NoDom
    /\ dashboardData = None
    /\ metrics = <<>>
    /\ results = <<>>
    /\ completed = 0
    /\ inflight = {}
    /\ progress = None
    /\ shown = None
    /\ pagePc = "idle"

AnalyzerIdle ==
    /\ given = ScenarioE
    /\ metric = given
    /\ env = NoEnv
    /\ result = NoResult
    /\ first = NoResult
    /\ pc = "idle"

\* at most MaxCalls calls of init() on the instance
MaxCalls == 2

BootIdle ==
    /\ readyState = "complete"
    /\ config = None
    /\ scriptPc = "not_run"
    /\ instance = "none"
    /\ initCalls = 0
    /\ calls = [c \in 1..MaxCalls |-> "not_called"]
    /\ initialized = FALSE
    /\ pyodideLoads = 0
    /\ collections = 0
    /\ buttons = 0
    /\ errorsShown = 0

ApiIdle ==
    /\ sqlResponseFormat = FALSE
    /\ response = None
    /\ returned = None
    /\ apiPc = "idle"

\* the variables an action on a single metric leaves alone
notAnalyzer == <<pageVars, bootVars, apiVars>>

\* the variables an action of the page leaves alone
notPage == <<analyzerVars, bootVars, apiVars>>

\* the variables a step of the loading and of init() leaves alone
notBoot == <<analyzerVars, pageVars, apiVars>>

\* the variables a call of the API client leaves alone
notApi == <<analyzerVars, pageVars, bootVars>>

---------------------------------------------------------------------------
(* The state machine: a metric is analysed, then analysed again            *)

Init ==
    /\ given \in Metrics
    /\ metric = given
    /\ env = NoEnv
    /\ result = NoResult
    /\ first = NoResult
    /\ pc = "ready"
    /\ PageIdle
    /\ BootIdle
    /\ ApiIdle

\* result = await analyze_metric(metric_data, filters, period, api_client,
\* dashboard_data): the first call on the metric
Analyze(e) ==
    /\ pc = "ready"
    /\ LET r == analyze_metric(metric, e.filters, e.period, e.api_client, e.dashboard)
       IN  /\ result' = [r EXCEPT !.metric = None]
           /\ first' = [r EXCEPT !.metric = None]
           /\ metric' = r.metric
    /\ env' = e
    /\ pc' = "analyzed"
    /\ UNCHANGED <<given, notAnalyzer>>

\* a later call on the same metric object, with any other arguments
Reanalyze(e) ==
    /\ pc \in {"analyzed", "reanalyzed"}
    /\ LET r == analyze_metric(metric, e.filters, e.period, e.api_client, e.dashboard)
       IN  /\ result' = [r EXCEPT !.metric = None]
           /\ metric' = r.metric
    /\ env' = e
    /\ pc' = "reanalyzed"
    /\ UNCHANGED <<given, first, notAnalyzer>>

Next == \E e \in Envs : Analyze(e) \/ Reanalyze(e)

Spec == Init /\ [][Next]_vars

---------------------------------------------------------------------------
(* What the claims speak about, read off the input and the returned report *)

Called == pc \notin {"ready", "idle"}

Cur == given.value

Prev == given.comparison_value

Bounds == IF IsNone(given.thresholds) THEN NoBounds ELSE given.thresholds[1]

\* the declared positive direction, "up" when none is declared
Dir == IF IsNone(given.positive_direction) THEN "up" ELSE given.positive_direction[1]

Below(b) == ~IsNone(Cur) /\ ~IsNone(b) /\ Cur[1] < b[1]

Above(b) == ~IsNone(Cur) /\ ~IsNone(b) /\ Cur[1] > b[1]

Returned == Called /\ result.exc = NoExc

\* the report lists an issue with these words
Reports(words) ==
    \E i \in 1..Len(result.report) :
        result.report[i].kind = "bullet" /\ result.report[i].words = words

CritMin == <<"CRITICAL", "below_critical_min">>

CritMax == <<"CRITICAL", "above_critical_max">>

WarnMin == <<"WARNING", "below_warning_min">>

WarnMax == <<"WARNING", "above_warning_max">>

NegChange == <<"NEGATIVE_CHANGE">>

HasChangeLine == \E i \in 1..Len(result.report) : result.report[i].kind = "change"

ShowsGlyph(g) ==
    \E i \in 1..Len(result.report) :
        result.report[i].kind = "change" /\ result.report[i].words = <<g>>

\* change evaluation applies: both values present, previous not zero
ChangeEvaluated == ~IsNone(Cur) /\ ~IsNone(Prev) /\ Prev[1] # 0

\* changePercent > 0, = 0, < 0 go with current > , = , < previous
Favorable ==
    IF Dir = "up" THEN Cur[1] > Prev[1]
    ELSE IF Dir = "down" THEN Cur[1] < Prev[1]
    ELSE FALSE

\* |changePercent| >= 10, that is |current - previous| * 100 >= 10 * |previous|
AtLeastTenPercent == Abs(Cur[1] - Prev[1]) * 100 >= 10 * Abs(Prev[1])

---------------------------------------------------------------------------
(* C1..C10 *)

\* C1: a value strictly below a present critical minimum gets no "below
\* warning minimum" issue, and a value strictly above a present critical
\* maximum no "above warning maximum" issue, whatever the warning bounds are.
C1_NonOverlap ==
    Called =>
        /\ (Below(Bounds.critical_min) => ~Reports(WarnMin))
        /\ (Above(Bounds.critical_max) => ~Reports(WarnMax))

\* C1 witness: inverted bounds (criticalMin > warningMin), the value below
\* both: the critical issue is reported and the warning is not.
C1_Witness ==
    /\ Returned
    /\ Below(Bounds.critical_min) /\ Below(Bounds.warning_min)
    /\ Bounds.critical_min[1] > Bounds.warning_min[1]
    /\ Reports(CritMin) /\ ~Reports(WarnMin)

\* C2: with a current value present, the critical "below minimum" issue is
\* reported exactly when criticalMin is present and current < criticalMin,
\* and the critical "above maximum" issue exactly when criticalMax is present
\* and current > criticalMax (so never for a value equal to the bound).
C2_CriticalExact ==
    (Called /\ ~IsNone(Cur)) =>
        /\ (Reports(CritMin) <=> Below(Bounds.critical_min))
        /\ (Reports(CritMax) <=> Above(Bounds.critical_max))

\* C2 witness: the value is below the critical minimum and equal to the
\* critical maximum: one critical issue, for the minimum only.
C2_Witness ==
    /\ Returned
    /\ Below(Bounds.critical_min)
    /\ Bounds.critical_max = Cur
    /\ Reports(CritMin) /\ ~Reports(CritMax)

\* C3: the warning "below minimum" issue is reported exactly when current
\* and warningMin are present, current < warningMin and criticalMin is
\* absent or current >= criticalMin; symmetrically for the maximum; for
\* every ordering of the four bounds.
C3_WarningExact ==
    Called =>
        /\ Reports(WarnMin) <=>
              /\ Below(Bounds.warning_min)
              /\ (IsNone(Bounds.critical_min) \/ Cur[1] >= Bounds.critical_min[1])
        /\ Reports(WarnMax) <=>
              /\ Above(Bounds.warning_max)
              /\ (IsNone(Bounds.critical_max) \/ Cur[1] <= Bounds.critical_max[1])

\* C3 witness: the value equals the critical maximum and is above the warning
\* maximum: the guard passes and the warning is reported.
C3_Witness ==
    /\ Returned
    /\ Bounds.critical_max = Cur
    /\ Above(Bounds.warning_max)
    /\ Reports(WarnMax)

\* C4 (as claimed): whenever change evaluation applies, the change line shows
\* the up glyph for changePercent > 0 and the down glyph for changePercent < 0,
\* whatever the positive direction is.
C4_GlyphBySign ==
    (Called /\ ChangeEvaluated) =>
        /\ (Cur[1] > Prev[1] => ShowsGlyph("up_arrow"))
        /\ (Cur[1] < Prev[1] => ShowsGlyph("down_arrow"))

\* C5: the negative-change issue is reported exactly when change evaluation
\* applies, the change is not favorable and |changePercent| >= 10.
C5_NegativeChangeExact ==
    Called =>
        (Reports(NegChange) <=>
            (ChangeEvaluated /\ ~Favorable /\ AtLeastTenPercent))

\* C5 witness: a change of exactly ten percent in the unfavorable direction,
\* with the issue reported.
C5_Witness ==
    /\ Returned
    /\ ChangeEvaluated /\ ~Favorable
    /\ Abs(Cur[1] - Prev[1]) * 100 = 10 * Abs(Prev[1])
    /\ Reports(NegChange)

\* C6: with a previous value of 0 the report has no change line and no
\* negative-change issue, and the call does not divide by zero.
C6_ZeroPrevious ==
    (Called /\ Prev = Some(0)) =>
        /\ result.exc # "ZeroDivisionError"
        /\ ~HasChangeLine
        /\ ~Reports(NegChange)

\* C6 witness: a call with previous value 0 and a non-zero current value
\* has returned.
C6_Witness ==
    /\ Returned
    /\ Prev = Some(0)
    /\ ~IsNone(Cur) /\ Cur[1] # 0
    /\ given.positive_direction = Some("down")

\* C7: every call returns (no exception) a non-empty report, and an absent
\* current value suppresses every threshold issue and the change line.
C7_NoErrorOutcome ==
    Called =>
        /\ result.exc = NoExc
        /\ Len(result.report) > 0
        /\ IsNone(Cur) =>
              /\ ~Reports(CritMin) /\ ~Reports(CritMax)
              /\ ~Reports(WarnMin) /\ ~Reports(WarnMax)
              /\ ~HasChangeLine

\* C7 witness: no current value, while a previous value and all four bounds
\* are present: the call has returned a report.
C7_Witness ==
    /\ Returned
    /\ IsNone(Cur)
    /\ ~IsNone(Prev)
    /\ \A k \in DOMAIN Bounds : ~IsNone(Bounds[k])
    /\ Len(result.report) > 0

\* the lines of a report that list an issue, in order
BulletsOf(report) ==
    SelectSeq(report, LAMBDA l : l.kind = "bullet")

\* C8: the report ends with the single "no problems" line exactly when the
\* issue list is empty; otherwise it lists every issue, one line each, and
\* has no "no problems" line.
C8_Conclusion ==
    Returned =>
        LET r == result.report
            normal == {i \in 1..Len(r) : r[i].kind = "no_problems"}
        IN  /\ (r[Len(r)].kind = "no_problems") <=> (result.issues = <<>>)
            /\ result.issues = <<>> => normal = {Len(r)}
            /\ result.issues # <<>> =>
                  /\ normal = {}
                  /\ BulletsOf(r) =
                        [i \in 1..Len(result.issues) |->
                            [result.issues[i] EXCEPT !.kind = "bullet"]]

\* C8 witness: a report with two issues or more.
C8_Witness ==
    /\ Returned
    /\ Len(result.issues) >= 2
    /\ Len(BulletsOf(result.report)) >= 2

\* the threshold issues of a report
ThresholdIssues(report) ==
    {w \in {CritMin, CritMax, WarnMin, WarnMax} :
        \E i \in 1..Len(report) : report[i].kind = "bullet" /\ report[i].words = w}

\* the value is below both minimum bounds and above both maximum bounds: each
\* of the four comparisons holds, as all four issues at once require
AllFourBreached ==
    /\ Below(Bounds.critical_min) /\ Below(Bounds.warning_min)
    /\ Above(Bounds.critical_max) /\ Above(Bounds.warning_max)

\* C9 (as claimed): the four threshold checks are independent and may all
\* fire: for a metric whose value breaches all four bounds, one report holds
\* all four threshold issues at once.
C9_AllFourMayFire ==
    (Called /\ AllFourBreached) =>
        ThresholdIssues(result.report) = {CritMin, CritMax, WarnMin, WarnMax}

\* C9 (amended): a report holds at most two threshold issues, at most one
\* for the minimum side (critical or warning) and at most one for the
\* maximum side; one of each side may appear together.
C9_AtMostOnePerSide ==
    Called =>
        /\ Cardinality(ThresholdIssues(result.report) \cap {CritMin, WarnMin}) <= 1
        /\ Cardinality(ThresholdIssues(result.report) \cap {CritMax, WarnMax}) <= 1
        /\ Cardinality(ThresholdIssues(result.report)) <= 2

\* C9 witness: with bounds in a pathological order, one report holds a
\* minimum-side and a maximum-side issue, the value being below both minimum
\* bounds and above both maximum bounds.
C9_Witness ==
    /\ Returned
    /\ AllFourBreached
    /\ ThresholdIssues(result.report) = {CritMin, CritMax}

C12_OnlyNoProblemsLine ==
    (Called /\ ~IsNone(Cur) /\ IsNone(given.thresholds) /\ IsNone(Prev)) =>
        result.report = <<Line("no_problems", <<>>, <<>>)>>

\* C12 (amended): for such a metric the report is the title line, the line
\* with the current value and the "no problems" line (with the two blank
\* lines between them): no change line and no issue.
C12_OnlyTitleValueAndNoProblems ==
    (Called /\ ~IsNone(Cur) /\ IsNone(given.thresholds) /\ IsNone(Prev)) =>
        result.report =
            << Line("title", <<GetOr(given.name, "Metric")>>, <<>>),
               Line("blank", <<>>, <<>>),
               Line("current", <<>>, <<Format2(Cur)>>),
               Line("blank", <<>>, <<>>),
               Line("no_problems", <<>>, <<>>) >>

\* C12 witness: Scenario E (current value 42, nothing else) has been analysed.
C12_Witness ==
    /\ Returned
    /\ given = ScenarioE
    /\ Len(result.report) = 5
    /\ result.issues = <<>>

---------------------------------------------------------------------------
(* Two metrics that differ in one group of inputs only                     *)

\* the call on the metric as given, before the call on its counterpart
AnalyzeGiven ==
    /\ pc = "ready"
    /\ \E e \in Envs : IsNone(e.period) /\ Analyze(e)

\* a call on the same metric without comparison value and positive direction
AnalyzeWithoutChangeInputs ==
    /\ pc = "analyzed"
    /\ LET m == [given EXCEPT !.comparison_value = None,
                              !.positive_direction = None]
           r == analyze_metric(m, env.filters, env.period, env.api_client,
                               env.dashboard)
       IN  /\ result' = [r EXCEPT !.metric = None]
           /\ metric' = r.metric
    /\ pc' = "without_change_inputs"
    /\ UNCHANGED <<given, first, env, notAnalyzer>>

\* a call on the same metric without thresholds
AnalyzeWithoutThresholds ==
    /\ pc = "analyzed"
    /\ LET m == [given EXCEPT !.thresholds = None]
           r == analyze_metric(m, env.filters, env.period, env.api_client,
                               env.dashboard)
       IN  /\ result' = [r EXCEPT !.metric = None]
           /\ metric' = r.metric
    /\ pc' = "without_thresholds"
    /\ UNCHANGED <<given, first, env, notAnalyzer>>

NextIndependence ==
    \/ AnalyzeGiven
    \/ AnalyzeWithoutChangeInputs
    \/ AnalyzeWithoutThresholds

SpecIndependence == Init /\ [][NextIndependence]_vars

\* the lines of a report that list a threshold issue
ThresholdBullets(report) ==
    SelectSeq(report, LAMBDA l : l.kind = "bullet"
                                 /\ l.words \in {CritMin, CritMax, WarnMin, WarnMax})

\* the change line and the negative-change issue of a report
ChangeLines(report) ==
    SelectSeq(report, LAMBDA l : l.kind = "change"
                                 \/ (l.kind = "bullet" /\ l.words = NegChange))

\* C13: for a fixed current value the threshold issues of the report are
\* those of the report without previous value and positive direction (so
\* the same for every previous value and direction), and the change line and
\* the negative-change issue are those of the report without thresholds (so
\* the same for every thresholds record).
C13_Independent ==
    /\ pc = "without_change_inputs" =>
          ThresholdBullets(result.report) = ThresholdBullets(first.report)
    /\ pc = "without_thresholds" =>
          ChangeLines(result.report) = ChangeLines(first.report)

\* C13 witness: a metric with a threshold issue and a negative change has
\* been analysed again without its thresholds: the change line and the
\* negative-change issue are still there, the threshold issue is not.
C13_Witness ==
    /\ pc = "without_thresholds"
    /\ ThresholdBullets(first.report) # <<>>
    /\ Len(ChangeLines(first.report)) = 2
    /\ ChangeLines(result.report) = ChangeLines(first.report)
    /\ ThresholdBullets(result.report) = <<>>

---------------------------------------------------------------------------
(* The dashboard page: what collectDashboardData reads from the document   *)
(*                                                                         *)
(* An element is described by what the code reads from it: the selectors  *)
(* of collectMetrics it matches, its name (data-metric, data-title or the *)
(* first line of its text), the first number of its text and the first    *)
(* percentage of its text.  An element whose text holds no number has no  *)
(* value; an element with a value always has a name, its text not being   *)
(* empty.                                                                  *)

\* at most MaxElems metric elements on the page
MaxElems == 2

\* the selectors of collectMetrics, in the order they are scanned
metricSelectors ==
    <<"[data-metric]", "[class*=metric]", "[class*=kpi]", "[class*=indicator]">>

\* the selectors an element matches: one of them, or (as the element of the
\* README's first example) both its data-metric attribute and its class
MatchSets ==
    {{metricSelectors[1]}, {metricSelectors[2]}, {metricSelectors[3]},
     {metricSelectors[1], metricSelectors[2]}}

ElementValues == {1, 2}

MetricElements ==
    [matches : MatchSets,
     name    : {"Revenue"},
     number  : OptNumber(ElementValues),
     percent : OptNumber({5})]

\* a filter element: its tag, its name, its value and its checked state
FilterElements ==
    {[tagName |-> "SELECT", name |-> "region", value |-> "north", checked |-> FALSE],
     [tagName |-> "INPUT",  name |-> "active", value |-> "",      checked |-> TRUE]}

\* the text of a period element and the dates (yyyy-mm-dd) found in it
PeriodTexts ==
    {[text |-> "", dates |-> <<>>],
     [text |-> "2024-01-01 - 2024-01-31", dates |-> <<"2024-01-01", "2024-01-31">>]}

SeqsUpTo(S, n) == UNION {[1..k -> S] : k \in 0..n}

Documents ==
    [elements : SeqsUpTo(MetricElements, MaxElems),
     filters  : SeqsUpTo(FilterElements, 1),
     period   : {None} \cup {Some(t) : t \in PeriodTexts}]

\* text.match(/[\d,]+\.?\d*/): the first number of the text, or null
extractMetricValue(element) == element.number

\* text.match(/([+-]?\d+\.?\d*)\s*%/): {type, value}, or null
extractMetricChange(element) ==
    IF IsNone(element.percent) THEN None
    ELSE Some([type |-> "percent", value |-> element.percent[1]])

\* the positions of the elements that querySelectorAll(selector) returns
querySelectorAll(elements, selector) ==
    SelectSeq([i \in 1..Len(elements) |-> i],
              LAMBDA i : selector \in elements[i].matches)

\* the metric the inner forEach builds for the element at position index
\* (counted from 0) of the selector's matches
CollectedMetric(elements, found, index) ==
    LET element == elements[found[index + 1]]
    IN  [id      |-> <<"metric_", index>>,
         name    |-> Some(element.name),
         value   |-> extractMetricValue(element),
         change  |-> extractMetricChange(element),
         element |-> found[index + 1],
         comparison_value |-> None,
         thresholds |-> None,
         positive_direction |-> None]

\* what one selector adds to data.metrics
MetricsOfSelector(elements, selector) ==
    LET found == querySelectorAll(elements, selector)
        all == [k \in 1..Len(found) |-> CollectedMetric(elements, found, k - 1)]
    IN  SelectSeq(all, LAMBDA m : m.name # Some("") /\ ~IsNone(m.value))

collectMetrics(elements) ==
    MetricsOfSelector(elements, metricSelectors[1])
    \o MetricsOfSelector(elements, metricSelectors[2])
    \o MetricsOfSelector(elements, metricSelectors[3])
    \o MetricsOfSelector(elements, metricSelectors[4])

\* the value collectFilters reads from an element: a string, or for an
\* INPUT with an empty value its checked state
FilterValue(element) ==
    IF element.tagName = "INPUT" /\ element.value = ""
    THEN <<"boolean", IF element.checked THEN "true" ELSE "false">>
    ELSE <<"string", element.value>>

JsTruthy(v) == v \notin {<<"string", "">>, <<"boolean", "false">>}

\* data.filters as the list of its entries (no two elements of the
\* documents above share a name)
collectFilters(filterElements) ==
    LET all == [k \in 1..Len(filterElements) |->
                   [name  |-> filterElements[k].name,
                    value |-> FilterValue(filterElements[k])]]
    IN  SelectSeq(all, LAMBDA f : f.name # "" /\ JsTruthy(f.value))

parsePeriod(text) ==
    IF text.text = "" THEN None
    ELSE IF Len(text.dates) >= 2
         THEN Some([start |-> text.dates[1], end |-> text.dates[2]])
         ELSE Some([raw |-> text.text])

collectPeriod(period) ==
    IF IsNone(period) THEN None ELSE parsePeriod(period[1])

collectDashboardData(d) ==
    [metrics     |-> collectMetrics(d.elements),
     filters     |-> collectFilters(d.filters),
     period      |-> collectPeriod(d.period),
     granularity |-> None]

---------------------------------------------------------------------------
(* runPythonAnalysis: the Python source built from JSON text, and its run  *)

\* The bare names null, true and false that JSON.stringify writes, in the
\* order of the text: Python reads each of them as a variable.
MetricLiterals(m) == IF IsNone(m.change) THEN <<"null">> ELSE <<>>

RECURSIVE MetricsLiterals(_)
MetricsLiterals(ms) ==
    IF ms = <<>> THEN <<>>
    ELSE MetricLiterals(Head(ms)) \o MetricsLiterals(Tail(ms))

RECURSIVE FilterLiterals(_)
FilterLiterals(fs) ==
    IF fs = <<>> THEN <<>>
    ELSE (IF Head(fs).value[1] = "boolean" THEN <<Head(fs).value[2]>> ELSE <<>>)
         \o FilterLiterals(Tail(fs))

OptionLiterals(x) == IF IsNone(x) THEN <<"null">> ELSE <<>>

DashboardLiterals(data) ==
    MetricsLiterals(data.metrics) \o FilterLiterals(data.filters)
    \o OptionLiterals(data.period) \o OptionLiterals(data.granularity)

\* lines 779 to 782: metric_data, filters, period, dashboard_data
SourceLiterals(m, data) ==
    MetricLiterals(m) \o FilterLiterals(data.filters)
    \o OptionLiterals(data.period) \o DashboardLiterals(data)

\* the Python dict that the JSON text of a metric denotes, as far as
\* analyze_metric reads it
PyDict(m) ==
    [name |-> m.name, value |-> m.value, comparison_value |-> m.comparison_value,
     thresholds |-> m.thresholds, positive_direction |-> m.positive_direction]

Resolved(analysis) == [ok |-> TRUE, analysis |-> analysis, message |-> <<>>]

Rejected(message) == [ok |-> FALSE, analysis |-> <<>>, message |-> message]

\* How the promise of runPythonAnalysis(metric) settles.  The page serves no
\* analyzers/*.py, so the embedded analyzer is the one that runs.
runPythonAnalysis(m, data) ==
    IF IsNone(m.name) THEN Rejected(<<"TypeError", "toLowerCase">>)
    ELSE IF SourceLiterals(m, data) # <<>>
    THEN Rejected(<<"NameError", Head(SourceLiterals(m, data))>>)
    ELSE LET r == analyze_metric(PyDict(m), data.filters, data.period,
                                 "api_client", Some(data))
         IN  IF r.exc # NoExc THEN Rejected(<<r.exc>>) ELSE Resolved(r.report)

---------------------------------------------------------------------------
(* analyzeAllMetrics and renderAllResults                                  *)

SuccessResult(m, analysis) ==
    [metric |-> m, analysis |-> analysis, success |-> TRUE]

FailedResult(m, message) ==
    [metric |-> m,
     analysis |-> <<Line("error", message, <<>>)>>,
     success |-> FALSE]

\* mutant: a metric whose analysis throws leaves no result
AfterSettle_DropFailed(rs, m, outcome) ==
    IF outcome.ok THEN Append(rs, SuccessResult(m, outcome.analysis)) ELSE rs

\* the results after the try / catch of one loop iteration
AfterSettle(rs, m, outcome) ==
    IF outcome.ok THEN Append(rs, SuccessResult(m, outcome.analysis))
    ELSE Append(rs, FailedResult(m, outcome.message))

\* mutant: the metric that is being started is counted as processed
Progress_CountsStarted(done, total) ==
    Some([completed |-> done + 1, total |-> total,
          percent |-> (200 * (done + 1) + total) \div (2 * total)])

\* the numbers updateProgress shows: completed, metrics.length and
\* Math.round((completed / metrics.length) * 100)
Progress(done, total) ==
    Some([completed |-> done, total |-> total,
          percent |-> (200 * done + total) \div (2 * total)])

\* mutant: the results are listed as they are
renderAllResults_InOrder(rs) ==
    Some([total |-> Len(rs),
          successful |-> Len(SelectSeq(rs, LAMBDA r : r.success)),
          failed |-> Len(SelectSeq(rs, LAMBDA r : ~r.success)),
          list |-> rs])

\* what renderAllResults puts into the modal body: the three counts, then
\* the successful results, then the failed ones
renderAllResults(rs) ==
    LET successfulResults == SelectSeq(rs, LAMBDA r : r.success)
        failedResults == SelectSeq(rs, LAMBDA r : ~r.success)
    IN  Some([total |-> Len(rs),
              successful |-> Len(successfulResults),
              failed |-> Len(failedResults),
              list |-> successfulResults \o failedResults])

\* init, lines 63 to 68: the dashboard is collected and the button created
InitCollect ==
    /\ pagePc = "loaded"
    /\ dashboardData' = Some(collectDashboardData(dom))
    /\ pagePc' = "ready"
    /\ UNCHANGED <<dom, metrics, results, completed, inflight, progress, shown>>
    /\ UNCHANGED notPage

\* the page shows another value in one of its metric elements (not looked
\* at during a run: a run reads this.dashboardData only)
DomChange(i, v) ==
    /\ pagePc # "running"
    /\ i \in 1..Len(dom.elements)
    /\ dom.elements[i].number # Some(v * Scale)
    /\ dom' = [dom EXCEPT !.elements[i].number = Some(v * Scale)]
    /\ UNCHANGED <<dashboardData, metrics, results, completed, inflight,
                   progress, shown, pagePc>>
    /\ UNCHANGED notPage

\* a click on the button: showAnalysisModal calls analyzeAllMetrics, which
\* runs up to the await of the first runPythonAnalysis
Click ==
    /\ pagePc \in {"ready", "rendered", "empty"}
    /\ IF IsNone(dashboardData) \/ Len(dashboardData[1].metrics) = 0
       THEN /\ pagePc' = "empty"
            /\ shown' = None
            /\ UNCHANGED <<metrics, results, completed, inflight, progress>>
       ELSE /\ metrics' = dashboardData[1].metrics
            /\ results' = <<>>
            /\ completed' = 0
            /\ progress' = Progress(0, Len(dashboardData[1].metrics))
            /\ inflight' = {1}
            /\ shown' = None
            /\ pagePc' = "running"
    /\ UNCHANGED <<dom, dashboardData>>
    /\ UNCHANGED notPage

\* the pending runPythonAnalysis settles: the result is pushed, completed is
\* counted up, and the loop goes on to the next metric or to the rendering
Settle(k) ==
    /\ pagePc = "running"
    /\ k \in inflight
    /\ LET outcome == runPythonAnalysis(metrics[k], dashboardData[1])
           rs == AfterSettle(results, metrics[k], outcome)
       IN  /\ results' = rs
           /\ completed' = completed + 1
           /\ IF k < Len(metrics)
              THEN /\ progress' = Progress(completed + 1, Len(metrics))
                   /\ inflight' = (inflight \ {k}) \cup {k + 1}
                   /\ UNCHANGED <<shown, pagePc>>
              ELSE /\ inflight' = inflight \ {k}
                   /\ shown' = renderAllResults(rs)
                   /\ progress' = None
                   /\ pagePc' = "rendered"
    /\ UNCHANGED <<dom, metrics, dashboardData>>
    /\ UNCHANGED notPage

PageInit ==
    /\ dom \in Documents
    /\ dashboardData = None
    /\ metrics = <<>>
    /\ results = <<>>
    /\ completed = 0
    /\ inflight = {}
    /\ progress = None
    /\ shown = None
    /\ pagePc = "loaded"
    /\ AnalyzerIdle
    /\ BootIdle
    /\ ApiIdle

NextPage ==
    \/ InitCollect
    \/ \E i \in 1..MaxElems, v \in ElementValues : DomChange(i, v)
    \/ Click
    \/ \E k \in 1..(4 * MaxElems) : Settle(k)

SpecPage == PageInit /\ [][NextPage]_vars

---------------------------------------------------------------------------
(* Claims about the page                                                   *)

Collected == ~IsNone(dashboardData)

ValuesOf(ms) == [i \in 1..Len(ms) |-> ms[i].value]

\* C14 (as claimed): the metric values a run analyses are the ones the
\* document shows at the click that started the run.
C14_ValuesOfTheClick ==
    pagePc = "running" =>
        ValuesOf(metrics) = ValuesOf(collectMetrics(dom.elements))

\* C15 (as claimed): when the results of a click are rendered, every metric
\* of dashboardData.metrics has a result with success = true, also when the
\* JSON text holds null (no percent change, no period) or true (a filter).
C15_EveryMetricSucceeds ==
    pagePc = "rendered" =>
        /\ Len(results) = Len(dashboardData[1].metrics)
        /\ \A i \in 1..Len(results) : results[i].success

\* C20 (as claimed): after collectDashboardData no two metrics of
\* dashboardData.metrics have the same id.
C20_UniqueIds ==
    Collected =>
        \A i, j \in 1..Len(dashboardData[1].metrics) :
            i # j => dashboardData[1].metrics[i].id # dashboardData[1].metrics[j].id

---------------------------------------------------------------------------
(* A run of analyzeAllMetrics on any dashboard data                        *)
(*                                                                         *)
(* this.dashboardData as the shipped collection leaves it, and as a host  *)
(* that adapted the collection to its dashboard (README, example 2)       *)
(* leaves it: metrics with their own keys, no null in the data.           *)

\* at most MaxRun metrics in dashboardData.metrics
MaxRun == 3

\* a metric object with the keys of the collection
RunMetric(m, change) ==
    [id      |-> <<"metric_", 0>>,
     name    |-> m.name,
     value   |-> m.value,
     change  |-> change,
     element |-> 0,
     comparison_value |-> m.comparison_value,
     thresholds |-> m.thresholds,
     positive_direction |-> m.positive_direction]

PercentChange == Some([type |-> "percent", value |-> 5 * Scale])

\* metrics whose analysis returns a report (one of them without a current
\* value), one without percent change (its JSON text holds null), and one
\* without a name (loadAnalyzerCode throws on metric.name.toLowerCase())
RunMetricKinds ==
    { RunMetric(ScenarioA, PercentChange),
      RunMetric(ScenarioB, PercentChange),
      RunMetric(BareMetric(4200), None),
      RunMetric([ScenarioC EXCEPT !.value = None], PercentChange),
      RunMetric(ScenarioE, PercentChange) }

\* the metrics numbered as they are pushed: metric_0, metric_1, ...
Numbered(ms) == [i \in 1..Len(ms) |-> [ms[i] EXCEPT !.id = <<"metric_", i - 1>>]]

RunData ==
    { [metrics     |-> Numbered(ms),
       filters     |-> fs,
       period      |-> p,
       granularity |-> g] :
        ms \in SeqsUpTo(RunMetricKinds, MaxRun),
        fs \in {collectFilters(f) : f \in SeqsUpTo(FilterElements, 1)},
        p  \in {collectPeriod(None), Some([raw |-> "2024"])},
        g  \in {None, Some("day")} }

RunInit ==
    /\ dom = NoDom
    /\ dashboardData \in {Some(d) : d \in RunData}
    /\ metrics = <<>>
    /\ results = <<>>
    /\ completed = 0
    /\ inflight = {}
    /\ progress = None
    /\ shown = None
    /\ pagePc = "ready"
    /\ AnalyzerIdle
    /\ BootIdle
    /\ ApiIdle

NextRun ==
    \/ Click
    \/ \E k \in 1..MaxRun : Settle(k)

SpecRun == RunInit /\ [][NextRun]_vars

MetricsOf(rs) == [i \in 1..Len(rs) |-> rs[i].metric]

Rendered == pagePc = "rendered"

C18_OneAtATimeIsolated ==
    /\ Cardinality(inflight) <= 1
    /\ pagePc = "running" => inflight = {Len(results) + 1}
    /\ pagePc \in {"running", "rendered"} =>
          /\ completed = Len(results)
          /\ \A i \in 1..Len(results) :
                LET outcome == runPythonAnalysis(metrics[i], dashboardData[1])
                IN  /\ results[i].metric = metrics[i]
                    /\ results[i].success = outcome.ok
                    /\ ~outcome.ok =>
                          results[i].analysis = <<Line("error", outcome.message, <<>>)>>
    /\ Rendered =>
          /\ inflight = {}
          /\ Len(results) = Len(metrics)
          /\ shown[1].total = Len(metrics)
          /\ shown[1].successful + shown[1].failed = Len(metrics)

\* C18 witness: the first analysis threw, its error message is in the first
\* result, and the metrics after it were analysed, one of them with success.
C18_Witness ==
    /\ Rendered
    /\ Len(metrics) = MaxRun
    /\ ~results[1].success
    /\ results[1].analysis = <<Line("error", <<"TypeError", "toLowerCase">>, <<>>)>>
    /\ results[2].success
    /\ shown[1].successful >= 1
    /\ shown[1].failed >= 1

---------------------------------------------------------------------------
(* The generated API client: execute_sql and the answer of the backend     *)

\* at most MaxRows rows in an answer
MaxRows == 2

RowLists == SeqsUpTo({"row_a", "row_b"}, MaxRows)

\* a JSON list of rows
ListData(rows) ==
    [kind |-> "list", items |-> rows, success |-> None, result |-> None, data |-> None]

\* a JSON object with any of the keys success, result and data
DictData(s, r, d) ==
    [kind |-> "dict", items |-> <<>>, success |-> s, result |-> r, data |-> d]

Responses ==
    {ListData(rows) : rows \in RowLists}
    \cup {DictData(s, r, d) : s \in {None, Some(TRUE), Some(FALSE)},
                              r \in {None} \cup {Some(rows) : rows \in RowLists},
                              d \in {None} \cup {Some(rows) : rows \in RowLists}}

Returns(rows) == [exc |-> NoExc, rows |-> rows]

Raises(exc) == [exc |-> exc, rows |-> <<>>]

\* data.get(key, []) of a dict
DictGet(d, key) ==
    LET v == IF key = "result" THEN d.result ELSE d.data
    IN  IF IsNone(v) THEN <<>> ELSE v[1]

\* lines 858 to 865: the standard parsing of the answer.  A list has no
\* method get: the first condition raises AttributeError for it.
ParseResponse(d) ==
    IF d.kind = "list" THEN Raises("AttributeError")
    ELSE IF d.success = Some(TRUE) /\ ~IsNone(d.result)
    THEN Returns(DictGet(d, "result"))
    ELSE IF ~IsNone(d.data) THEN Returns(DictGet(d, "data"))
    ELSE Returns(DictGet(d, "result"))

\* lines 876 to 881: _format_response, used when config.sqlResponseFormat
\* is a function
FormatResponse(d) ==
    IF d.kind = "list" THEN Returns(d.items)
    ELSE IF DictGet(d, "result") # <<>> THEN Returns(DictGet(d, "result"))
    ELSE Returns(DictGet(d, "data"))

\* execute_sql up to the answer of the backend: data = await response.json()
Fetch(d) ==
    /\ apiPc = "idle"
    /\ response' = Some(d)
    /\ apiPc' = "fetched"
    /\ UNCHANGED <<sqlResponseFormat, returned>>
    /\ UNCHANGED notApi

\* the rest of execute_sql
Parse ==
    /\ apiPc = "fetched"
    /\ returned' = Some(IF sqlResponseFormat THEN FormatResponse(response[1])
                        ELSE ParseResponse(response[1]))
    /\ apiPc' = "returned"
    /\ UNCHANGED <<sqlResponseFormat, response>>
    /\ UNCHANGED notApi

ApiInit ==
    /\ sqlResponseFormat \in BOOLEAN
    /\ response = None
    /\ returned = None
    /\ apiPc = "idle"
    /\ AnalyzerIdle
    /\ PageIdle
    /\ BootIdle

NextApi ==
    \/ \E d \in Responses : Fetch(d)
    \/ Parse

SpecApi == ApiInit /\ [][NextApi]_vars

\* the two answers the README asks of a backend: {"result": rows} and rows
DocumentedShape(d) ==
    \/ d.kind = "list"
    \/ d.kind = "dict" /\ IsNone(d.success) /\ IsNone(d.data) /\ ~IsNone(d.result)

RowsOf(d) == IF d.kind = "list" THEN d.items ELSE DictGet(d, "result")

\* C16 (as claimed): the default client returns the rows of an answer of
\* either documented shape, without raising.
C16_BothShapesAccepted ==
    (apiPc = "returned" /\ ~sqlResponseFormat /\ DocumentedShape(response[1])) =>
        returned[1] = Returns(RowsOf(response[1]))

---------------------------------------------------------------------------
(* The loading of embed.js, the automatic initialisation and init()        *)

\* window.BIAnalyzerConfig as the page assigns it: autoInit left out, true
\* or false
Configs == {[autoInit |-> a] : a \in {"undefined", "true", "false"}}

\* window.BIAnalyzerConfig && window.BIAnalyzerConfig.autoInit !== false
AutoInitWanted(c) == ~IsNone(c) /\ c[1].autoInit # "false"

\* the awaits of init(), in their order
InitAwaits == <<"loadPyodide", "loadPackage", "install", "loadPythonModules">>

\* the awaits that load from the network and may reject
MayReject == {"loadPyodide", "loadPackage", "install"}

\* mutant: the try block ends after the loading of Pyodide
TrySteps_OnlyLoadPyodide == {"loadPyodide"}

\* the steps of init() inside its try block (lines 47 to 70)
TrySteps == {"loadPyodide", "loadPackage", "install", "loadPythonModules", "createUI"}

\* a step of call c throws: inside the try block the catch logs the error
\* and calls showError, and the call ends normally; outside of it the
\* promise of init() would be rejected
Throws(c, step) ==
    IF step \in TrySteps
    THEN /\ calls' = [calls EXCEPT ![c] = "failed"]
         /\ errorsShown' = errorsShown + 1
    ELSE /\ calls' = [calls EXCEPT ![c] = "rejected"]
         /\ UNCHANGED errorsShown

\* init() is called for the c-th time: entered and run up to its first await
Enter(c) ==
    /\ initCalls' = c
    /\ IF initialized
       THEN /\ calls' = [calls EXCEPT ![c] = "returned"]
            /\ UNCHANGED pyodideLoads
       ELSE /\ calls' = [calls EXCEPT ![c] = InitAwaits[1]]
            /\ pyodideLoads' = pyodideLoads + 1

\* the page (an inline script, a script.onload handler) assigns the config
AssignConfig(c) ==
    /\ IsNone(config)
    /\ config' = Some(c)
    /\ UNCHANGED <<readyState, scriptPc, instance, initCalls, calls, initialized,
                   pyodideLoads, collections, buttons, errorsShown>>
    /\ UNCHANGED notBoot

\* lines 1027 to 1040 with the instance created, or not, by the check
AutoInit ==
    IF AutoInitWanted(config)
    THEN /\ instance' = "auto"
         /\ Enter(1)
    ELSE UNCHANGED <<instance, initCalls, calls, pyodideLoads>>

\* embed.js is executed: it registers the listener while the document is
\* loading, and makes the check at once otherwise
RunScript ==
    /\ scriptPc = "not_run"
    /\ IF readyState = "loading"
       THEN /\ scriptPc' = "listening"
            /\ UNCHANGED <<instance, initCalls, calls, pyodideLoads>>
       ELSE /\ scriptPc' = "checked"
            /\ AutoInit
    /\ UNCHANGED <<readyState, config, initialized, collections, buttons, errorsShown>>
    /\ UNCHANGED notBoot

\* the document has been parsed: the listener, if registered, makes the check
DOMContentLoaded ==
    /\ readyState = "loading"
    /\ readyState' = "complete"
    /\ IF scriptPc = "listening"
       THEN /\ scriptPc' = "checked"
            /\ AutoInit
       ELSE UNCHANGED <<scriptPc, instance, initCalls, calls, pyodideLoads>>
    /\ UNCHANGED <<config, initialized, collections, buttons, errorsShown>>
    /\ UNCHANGED notBoot

\* a page for which the script created no analyzer creates it itself:
\* new window.BIAnalyzer({...})
HostCreate ==
    /\ scriptPc = "checked"
    /\ instance = "none"
    /\ instance' = "host"
    /\ UNCHANGED <<readyState, config, scriptPc, initCalls, calls, initialized,
                   pyodideLoads, collections, buttons, errorsShown>>
    /\ UNCHANGED notBoot

\* the page calls init() on its analyzer
HostInit ==
    /\ instance = "host"
    /\ initCalls < MaxCalls
    /\ Enter(initCalls + 1)
    /\ UNCHANGED <<readyState, config, scriptPc, instance, initialized,
                   collections, buttons, errorsShown>>
    /\ UNCHANGED notBoot

\* the await of call c is fulfilled: the call goes on to its next await, or
\* after the last one collects the dashboard, creates the button and sets
\* this.initialized
Fulfil(c) ==
    /\ \E k \in 1..Len(InitAwaits) :
          /\ calls[c] = InitAwaits[k]
          /\ IF k < Len(InitAwaits)
             THEN /\ calls' = [calls EXCEPT ![c] = InitAwaits[k + 1]]
                  /\ UNCHANGED <<collections, buttons, initialized>>
             ELSE /\ calls' = [calls EXCEPT ![c] = "done"]
                  /\ collections' = collections + 1
                  /\ buttons' = buttons + 1
                  /\ initialized' = TRUE
    /\ UNCHANGED <<readyState, config, scriptPc, instance, initCalls,
                   pyodideLoads, errorsShown>>
    /\ UNCHANGED notBoot

\* the await of call c is rejected: the catch logs and calls showError
Reject(c) ==
    /\ calls[c] \in MayReject
    /\ Throws(c, calls[c])
    /\ UNCHANGED <<readyState, config, scriptPc, instance, initCalls,
                   initialized, pyodideLoads, collections, buttons>>
    /\ UNCHANGED notBoot

\* the last await of call c is fulfilled, the dashboard is collected and
\* createUI throws before it appends the button (line 463 for a
\* buttonPosition that is no string, line 479 without document.body)
CreateUIThrows(c) ==
    /\ calls[c] = InitAwaits[Len(InitAwaits)]
    /\ collections' = collections + 1
    /\ Throws(c, "createUI")
    /\ UNCHANGED <<readyState, config, scriptPc, instance, initCalls,
                   initialized, pyodideLoads, buttons>>
    /\ UNCHANGED notBoot

BootInit ==
    /\ readyState \in {"loading", "complete"}
    /\ config = None
    /\ scriptPc = "not_run"
    /\ instance = "none"
    /\ initCalls = 0
    /\ calls = [c \in 1..MaxCalls |-> "not_called"]
    /\ initialized = FALSE
    /\ pyodideLoads = 0
    /\ collections = 0
    /\ buttons = 0
    /\ errorsShown = 0
    /\ AnalyzerIdle
    /\ PageIdle
    /\ ApiIdle

NextBoot ==
    \/ \E c \in Configs : AssignConfig(c)
    \/ RunScript
    \/ DOMContentLoaded
    \/ HostCreate
    \/ HostInit
    \/ \E c \in 1..MaxCalls : Fulfil(c)
    \/ \E c \in 1..MaxCalls : Reject(c)
    \/ \E c \in 1..MaxCalls : CreateUIThrows(c)

SpecBoot == BootInit /\ [][NextBoot]_vars

\* C17 (as claimed): once the page has assigned a config that does not
\* switch autoInit off, embed.js has run and the document is loaded, a
\* BIAnalyzer has been created by the script and its init() called once,
\* whichever of the assignment and the script came first.
C17_ButtonAppearsAutomatically ==
    (AutoInitWanted(config) /\ scriptPc = "checked" /\ readyState = "complete") =>
        (instance = "auto" /\ initCalls = 1)

\* C19 (as claimed): whatever init() calls were made on the instance,
\* Pyodide was loaded at most once, the dashboard collected at most once
\* and at most one button created.
C19_InitIdempotent ==
    /\ pyodideLoads <= 1
    /\ collections <= 1
    /\ buttons <= 1

---------------------------------------------------------------------------
(* C22: the sign of the percentage change                                  *)

\* C22: whenever change evaluation applies (previous value present and not
\* zero, negative ones included), change_percent is positive, zero or
\* negative exactly as change_abs = current - previous is, and zero exactly
\* when current = previous; the change line shows it: with positive
\* direction up the up glyph goes with current > previous, with down the up
\* glyph goes with current < previous.
C22_SignOfChangePercent ==
    (Called /\ ChangeEvaluated) =>
        LET change_percent == ChangePercent(Cur, Prev)
            change_abs == ChangeAbs(Cur, Prev)[1]
        IN  /\ change_percent.exc = NoExc
            /\ change_percent.d > 0
            /\ change_percent.n > 0 <=> change_abs > 0
            /\ change_percent.n < 0 <=> change_abs < 0
            /\ change_percent.n = 0 <=> Cur = Prev
            /\ Returned => /\ HasChangeLine
                           /\ Dir = "up" => (ShowsGlyph("up_arrow") <=> change_abs > 0)
                           /\ Dir = "down" => (ShowsGlyph("up_arrow") <=> change_abs < 0)

\* C22 witness: a negative previous value and a larger current value with
\* positive direction up: the change line shows the up glyph.
C22_Witness ==
    /\ Returned
    /\ ChangeEvaluated
    /\ Prev[1] < 0
    /\ Cur[1] > Prev[1]
    /\ Dir = "up"
    /\ ChangePercent(Cur, Prev).n > 0
    /\ ShowsGlyph("up_arrow")

---------------------------------------------------------------------------
(* C21: failures inside init()                                             *)

CallsIn(states) == {c \in 1..MaxCalls : calls[c] \in states}

\* C21: no init() call ends with a rejected promise; this.initialized is
\* true exactly when some call ran to its end, and then Pyodide was loaded,
\* the dashboard collected and the button created; a call in which a step
\* threw has left initialized alone and has called showError once; and
\* every call made while initialized is false (so every call after a failed
\* one) starts again with the loading of Pyodide: only a call made after a
\* completed initialisation returns early.
C21_InitFailureHandling ==
    /\ CallsIn({"rejected"}) = {}
    /\ initialized <=> CallsIn({"done"}) # {}
    /\ initialized => (pyodideLoads >= 1 /\ collections >= 1 /\ buttons >= 1)
    /\ buttons = Cardinality(CallsIn({"done"}))
    /\ errorsShown = Cardinality(CallsIn({"failed"}))
    /\ CallsIn({"returned"}) # {} => initialized
    /\ pyodideLoads = initCalls - Cardinality(CallsIn({"returned"}))

\* C21 witness: the first call failed, showError was called, and a later
\* call has loaded Pyodide again and completed the initialisation.
C21_Witness ==
    /\ calls[1] = "failed"
    /\ calls[2] = "done"
    /\ errorsShown = 1
    /\ pyodideLoads = 2
    /\ initialized

---------------------------------------------------------------------------
(* C23: the progress view of a run                                         *)

ProgressShown == ~IsNone(progress)

\* C23: while a run shows a progress view, its processed count is the
\* number of metrics whose analysis has settled (with a report or with an
\* error), which is at most n - 1 for the n metrics of the run; from one
\* progress view to the next the count does not decrease; and once the
\* results are rendered the progress view is gone until another click
\* starts another run.
C23_ProgressCount ==
    /\ [](/\ ProgressShown =>
                /\ pagePc = "running"
                /\ progress[1].total = Len(metrics)
                /\ progress[1].completed = Len(results)
                /\ progress[1].completed = completed
                /\ progress[1].completed <= Len(metrics) - 1
          /\ pagePc = "running" => ProgressShown
          /\ Rendered => (~ProgressShown /\ ~IsNone(shown)))
    /\ [][/\ (ProgressShown /\ ProgressShown')
                => progress'[1].completed >= progress[1].completed
          /\ (Rendered /\ ProgressShown') => pagePc' = "running" /\ completed' = 0]_vars

\* C23 witness: the last metric of a run of MaxRun metrics is being
\* analysed, an earlier analysis failed, and the view shows MaxRun - 1.
C23_Witness ==
    /\ pagePc = "running"
    /\ Len(metrics) = MaxRun
    /\ progress[1].completed = MaxRun - 1
    /\ \E i \in 1..Len(results) : ~results[i].success
    /\ \E i \in 1..Len(results) : results[i].success

===========================================================================
